---------------------------- MODULE Spec2Model ----------------------------
(***************************************************************************)
(* A model of juce_native_macos_dialogs: the native popup menus            *)
(* (NativeMacPopupMenu), the alert dialogs (NativeMacDialogs) and the      *)
(* pasteboard (NativeMacPasteboard) of src/juce_native_macos_dialogs.mm.   *)
(*                                                                         *)
(* AppKit is the environment: menu tracking, the modal session of an      *)
(* alert, the text field's editing and the general pasteboard are modelled *)
(* by what the calls of the source rely on.                                *)
(***************************************************************************)
EXTENDS Integers, Sequences, FiniteSets, TLC

\* ------------------------------------------------------------------ bounds

\* The largest number of items (at all levels together) of a menu shown from
\* the message thread.
MaxItems == 3

\* The largest number of items of a menu shown by one of two overlapping calls.
MaxOverlapItems == 1

\* The largest number of bytes a caller copies or holds in a memory block.
MaxDataLen == 2

\* The largest number of characters of the text a caller passes to the text
\* input dialog, and the largest number of UTF-16 units the user types the
\* text field up to.
MaxTextLen == 2
MaxFieldLen == 3

\* The largest maxLength a caller passes.
MaxMaxLength == 2

\* The largest number of blocks and timers pending on the main queue.
MaxQueued == 2

\* ------------------------------------------------------------------ strings

\* The sequences over S of length up to n.
RECURSIVE SeqsUpTo(_, _)
SeqsUpTo(S, n) ==
    IF n = 0 THEN {<<>>}
    ELSE LET shorter == SeqsUpTo(S, n - 1)
         IN  shorter \cup { Append(q, x) : q \in { r \in shorter : Len(r) = n - 1 }, x \in S }

\* A juce::String is a sequence of Unicode code points, an NSString a sequence
\* of UTF-16 units, and the two meet in UTF-8.  The texts of the model are made
\* of a letter and of a character outside the Basic Multilingual Plane, which
\* takes two UTF-16 units.
CodePoints == {97, 128512}

ReplacementCharacter == 65533

JuceStrings == SeqsUpTo(CodePoints, MaxTextLen)

NULL == <<>>

Utf8Of(cp) ==
    IF cp < 128 THEN <<cp>>
    ELSE IF cp < 2048 THEN <<192 + (cp \div 64), 128 + (cp % 64)>>
    ELSE IF cp < 65536
        THEN <<224 + (cp \div 4096), 128 + ((cp \div 64) % 64), 128 + (cp % 64)>>
    ELSE <<240 + (cp \div 262144), 128 + ((cp \div 4096) % 64),
           128 + ((cp \div 64) % 64), 128 + (cp % 64)>>

\* juce::String::toRawUTF8: the UTF-8 bytes of the string.
RECURSIVE toRawUTF8(_)
toRawUTF8(str) ==
    IF str = <<>> THEN <<>> ELSE Utf8Of(Head(str)) \o toRawUTF8(Tail(str))

Utf8Width(lead) ==
    IF lead < 128 THEN 1 ELSE IF lead < 224 THEN 2 ELSE IF lead < 240 THEN 3 ELSE 4

Utf8CodePoint(bytes) ==
    CASE Len(bytes) = 1 -> bytes[1]
      [] Len(bytes) = 2 -> (bytes[1] - 192) * 64 + (bytes[2] - 128)
      [] Len(bytes) = 3 ->
            (bytes[1] - 224) * 4096 + (bytes[2] - 128) * 64 + (bytes[3] - 128)
      [] OTHER ->
            (bytes[1] - 240) * 262144 + (bytes[2] - 128) * 4096
                + (bytes[3] - 128) * 64 + (bytes[4] - 128)

RECURSIVE DecodeUtf8(_)
DecodeUtf8(bytes) ==
    IF bytes = <<>> THEN <<>>
    ELSE LET w == Utf8Width(Head(bytes))
         IN  <<Utf8CodePoint(SubSeq(bytes, 1, w))>>
                \o DecodeUtf8(SubSeq(bytes, w + 1, Len(bytes)))

Utf16Of(cp) ==
    IF cp < 65536 THEN <<cp>>
    ELSE <<55296 + ((cp - 65536) \div 1024), 56320 + ((cp - 65536) % 1024)>>

RECURSIVE Utf16OfAll(_)
Utf16OfAll(str) ==
    IF str = <<>> THEN <<>> ELSE Utf16Of(Head(str)) \o Utf16OfAll(Tail(str))

\* +[NSString stringWithUTF8String:]: the UTF-16 units of the text the bytes
\* encode.
stringWithUTF8String(bytes) == Utf16OfAll(DecodeUtf8(bytes))

IsHighSurrogate(unit) == unit \in 55296..56319

IsLowSurrogate(unit) == unit \in 56320..57343

\* The code points of an NSString; a surrogate with no partner, which encodes
\* no character, comes out as `lone`.
RECURSIVE CodePointsOf(_, _)
CodePointsOf(units, lone) ==
    IF units = <<>> THEN <<>>
    ELSE IF /\ Len(units) >= 2
            /\ IsHighSurrogate(units[1])
            /\ IsLowSurrogate(units[2])
        THEN <<65536 + (units[1] - 55296) * 1024 + (units[2] - 56320)>>
                \o CodePointsOf(SubSeq(units, 3, Len(units)), lone)
    ELSE IF IsHighSurrogate(units[1]) \/ IsLowSurrogate(units[1])
        THEN <<lone>> \o CodePointsOf(Tail(units), lone)
    ELSE <<units[1]>> \o CodePointsOf(Tail(units), lone)

RECURSIVE WellFormed(_)
WellFormed(units) ==
    IF units = <<>> THEN TRUE
    ELSE IF /\ Len(units) >= 2
            /\ IsHighSurrogate(units[1])
            /\ IsLowSurrogate(units[2])
        THEN WellFormed(SubSeq(units, 3, Len(units)))
    ELSE IF IsHighSurrogate(units[1]) \/ IsLowSurrogate(units[1]) THEN FALSE
    ELSE WellFormed(Tail(units))

\* -[NSString UTF8String]: a pointer to the UTF-8 bytes of the text.  A text
\* that is not well-formed UTF-16 has no UTF-8 encoding: the conversion then
\* gives NULL or the bytes of a text with the lone surrogate replaced.
UTF8String(units) ==
    IF WellFormed(units)
        THEN {<<toRawUTF8(CodePointsOf(units, ReplacementCharacter))>>}
        ELSE {NULL, <<toRawUTF8(CodePointsOf(units, ReplacementCharacter))>>}

\* juce::String::fromUTF8: the string the bytes encode, empty for a null
\* pointer.
fromUTF8(buffer) == IF buffer = NULL THEN <<>> ELSE DecodeUtf8(buffer[1])

\* ------------------------------------------------------------- JUCE menus

\* A null pointer, and a pointer to a value: the empty tuple and <<value>>.
nullptr == <<>>

\* The text of an item where the text is not what a property is about.
ItemText == <<97>>

\* juce::PopupMenu::Item as the source reads it: text, itemID, isEnabled,
\* isTicked, isSeparator and subMenu (a pointer to a menu, which is a sequence
\* of items).
RegularItem(id, enabled, ticked) ==
    [text |-> ItemText, itemID |-> id, isEnabled |-> enabled, isTicked |-> ticked,
     isSeparator |-> FALSE, subMenu |-> nullptr]

SeparatorItem ==
    [text |-> <<>>, itemID |-> 0, isEnabled |-> TRUE, isTicked |-> FALSE,
     isSeparator |-> TRUE, subMenu |-> nullptr]

SubMenuItem(id, enabled, ticked, menu) ==
    [text |-> ItemText, itemID |-> id, isEnabled |-> enabled, isTicked |-> ticked,
     isSeparator |-> FALSE, subMenu |-> <<menu>>]

\* The menus with exactly n items at all levels together; the item that is
\* k-th in pre-order has the ID first + k - 1 (a separator has the ID 0).  The
\* first item of a menu takes k of the n items: a separator or a regular item
\* (k = 1), or an item with a submenu of k - 1 items (none included); the rest
\* of the menu follows it.
SingleItems(first) ==
    {SeparatorItem} \cup { RegularItem(first, e, t) : e \in BOOLEAN, t \in BOOLEAN }

SubMenuItems(first, subMenus) ==
    { SubMenuItem(first, x[1], x[2], m) : x \in BOOLEAN \X BOOLEAN, m \in subMenus }

RECURSIVE MenusWith(_, _)
RECURSIVE MenusStarting(_, _, _)
MenusStarting(n, first, k) ==
    IF k = 0 THEN {}
    ELSE MenusStarting(n, first, k - 1)
            \cup { <<it>> \o rest :
                     it \in (IF k = 1 THEN SingleItems(first) ELSE {})
                               \cup SubMenuItems(first, MenusWith(k - 1, first + 1)),
                     rest \in MenusWith(n - k, first + k) }

MenusWith(n, first) == IF n = 0 THEN {<<>>} ELSE MenusStarting(n, first, n)

RECURSIVE MenusUpTo(_)
MenusUpTo(n) == IF n = 0 THEN MenusWith(0, 1) ELSE MenusUpTo(n - 1) \cup MenusWith(n, 1)

Menus == MenusUpTo(MaxItems)

OverlapMenus == MenusUpTo(MaxOverlapItems)

\* Texts of items: none, a letter, and a character outside the Basic
\* Multilingual Plane followed by a letter.
Titles == {<<>>, <<97>>, <<128512, 97>>}

\* The menus that differ from a menu in the texts of its items only.
RECURSIVE Retitled(_, _)
Retitled(menu, texts) ==
    IF menu = <<>> THEN {<<>>}
    ELSE LET item == Head(menu)
             items ==
                IF item.isSeparator THEN {item}
                ELSE IF item.subMenu # nullptr
                  THEN { [item EXCEPT !.text = t, !.subMenu = <<m>>] :
                            t \in texts, m \in Retitled(item.subMenu[1], texts) }
                ELSE { [item EXCEPT !.text = t] : t \in texts }
         IN  { <<it>> \o rest : it \in items, rest \in Retitled(Tail(menu), texts) }

TitledMenus == UNION { Retitled(menu, Titles) : menu \in OverlapMenus }

\* The item of a menu at a path (the index at each level, top level first).
RECURSIVE ItemAt(_, _)
ItemAt(menu, path) ==
    IF Len(path) = 1 THEN menu[path[1]]
    ELSE ItemAt(menu[path[1]].subMenu[1], Tail(path))

\* ------------------------------------------------------- native menus

\* NSMenuItem as the source sets it up. A native menu (NSMenu) is the sequence
\* of its entries; an entry is named by its path in the top-level menu, which
\* stands for the NSMenuItem pointer.
NoAction == "nil"
MenuItemSelectedAction == "menuItemSelected:"
NoTarget == 0
StateOn == "NSControlStateValueOn"
StateOff == "NSControlStateValueOff"

\* [NSMenuItem separatorItem]: a disabled entry without title or action.
separatorItem ==
    [isSeparatorItem |-> TRUE, title |-> <<>>,
     action |-> NoAction, target |-> NoTarget, tag |-> 0,
     isEnabled |-> FALSE, state |-> StateOff, submenu |-> nullptr]

\* outCheckedItem: a pointer to the caller's NSMenuItem* variable (or null) and
\* the value of that variable.
NullOut == [isNull |-> TRUE, item |-> nullptr]
OutTo(item) == [isNull |-> FALSE, item |-> item]

\* Mutation: the caller's outCheckedItem is handed on to the submenus.
SubMenuOutCheckedItemHandedOn(outCheckedItem) == outCheckedItem

\* The outCheckedItem argument of the recursive call for a submenu.
SubMenuOutCheckedItem(outCheckedItem) == NullOut

\* The title of the entry of an item: the NSString made of the UTF-8 bytes of
\* the item's text.
TitleOf(item) == stringWithUTF8String(toRawUTF8(item.text))

\* Mutation: the entry of a submenu item shows the item's tick.
SubMenuEntryTicked(item, subMenu) ==
    [isSeparatorItem |-> FALSE, title |-> TitleOf(item),
     action |-> NoAction, target |-> NoTarget, tag |-> 0,
     isEnabled |-> item.isEnabled,
     state |-> IF item.isTicked THEN StateOn ELSE StateOff, submenu |-> <<subMenu>>]

\* Mutation: the entry of a submenu item is left without its submenu.
SubMenuEntryWithoutSubmenu(item, subMenu) ==
    [isSeparatorItem |-> FALSE, title |-> TitleOf(item),
     action |-> NoAction, target |-> NoTarget, tag |-> 0,
     isEnabled |-> item.isEnabled, state |-> StateOff, submenu |-> nullptr]

\* The entry built for an item that has a submenu.
SubMenuEntry(item, subMenu) ==
    [isSeparatorItem |-> FALSE, title |-> TitleOf(item),
     action |-> NoAction, target |-> NoTarget, tag |-> 0,
     isEnabled |-> item.isEnabled, state |-> StateOff, submenu |-> <<subMenu>>]

\* Mutation: the regular entry is left without its tag.
RegularEntryUntagged(item, target) ==
    [isSeparatorItem |-> FALSE, title |-> TitleOf(item),
     action |-> MenuItemSelectedAction, target |-> target,
     tag |-> 0, isEnabled |-> item.isEnabled,
     state |-> IF item.isTicked THEN StateOn ELSE StateOff, submenu |-> nullptr]

\* Mutation: the regular entry is left enabled whatever the item.
RegularEntryLeftEnabled(item, target) ==
    [isSeparatorItem |-> FALSE, title |-> TitleOf(item),
     action |-> MenuItemSelectedAction, target |-> target,
     tag |-> item.itemID, isEnabled |-> TRUE,
     state |-> IF item.isTicked THEN StateOn ELSE StateOff, submenu |-> nullptr]

\* The entry built for a regular item.
RegularEntry(item, target) ==
    [isSeparatorItem |-> FALSE, title |-> TitleOf(item),
     action |-> MenuItemSelectedAction, target |-> target,
     tag |-> item.itemID, isEnabled |-> item.isEnabled,
     state |-> IF item.isTicked THEN StateOn ELSE StateOff, submenu |-> nullptr]

\* Whether a regular item is stored through outCheckedItem.
StoresCheckedItem(item, outCheckedItem) ==
    item.isTicked /\ ~outCheckedItem.isNull /\ outCheckedItem.item = nullptr

\* The loop of buildNSMenuFromJuceMenu from item i on: nsMenu holds the entries
\* added so far, at is the path of the menu being built.
RECURSIVE BuildFrom(_, _, _, _, _, _)
BuildFrom(juceMenu, i, target, outCheckedItem, at, nsMenu) ==
    IF i > Len(juceMenu)
      THEN [nsMenu |-> nsMenu, outCheckedItem |-> outCheckedItem]
      ELSE
        LET item == juceMenu[i] IN
        IF item.isSeparator
          THEN BuildFrom(juceMenu, i + 1, target, outCheckedItem, at,
                         Append(nsMenu, separatorItem))
        ELSE IF item.subMenu # nullptr
          THEN
            LET subOut == SubMenuOutCheckedItem(outCheckedItem)
                sub == BuildFrom(item.subMenu[1], 1, target, subOut,
                                 Append(at, i), <<>>)
                \* a non-null pointer passed down is the caller's own variable
                out == IF subOut.isNull THEN outCheckedItem ELSE sub.outCheckedItem
            IN  BuildFrom(juceMenu, i + 1, target, out, at,
                          Append(nsMenu, SubMenuEntry(item, sub.nsMenu)))
        ELSE
            LET out == IF StoresCheckedItem(item, outCheckedItem)
                         THEN OutTo(Append(at, i))
                         ELSE outCheckedItem
            IN  BuildFrom(juceMenu, i + 1, target, out, at,
                          Append(nsMenu, RegularEntry(item, target)))

\* buildNSMenuFromJuceMenu: the native menu and what *outCheckedItem holds.
buildNSMenuFromJuceMenu(juceMenu, target, outCheckedItem) ==
    BuildFrom(juceMenu, 1, target, outCheckedItem, <<>>, <<>>)

\* The entry of a native menu at a path.
RECURSIVE EntryAt(_, _)
EntryAt(nsMenu, path) ==
    IF Len(path) = 1 THEN nsMenu[path[1]]
    ELSE EntryAt(nsMenu[path[1]].submenu[1], Tail(path))

\* Menu tracking: the entries the user can choose. An entry sends its action
\* when it is enabled, has an action and every submenu entry above it is
\* enabled (autoenablesItems is off, so the enabled flags are the ones set).
RECURSIVE Choosable(_, _)
Choosable(nsMenu, at) ==
    UNION { LET e == nsMenu[i] IN
            IF ~e.isEnabled THEN {}
            ELSE IF e.submenu # nullptr THEN Choosable(e.submenu[1], Append(at, i))
            ELSE IF e.action # NoAction THEN {Append(at, i)}
            ELSE {}
          : i \in 1..Len(nsMenu) }

\* Reference counting.  The show functions send release themselves, so the
\* file is compiled with manual reference counting: alloc hands its caller one
\* reference, addItem: and setSubmenu: retain what they are given, setTarget:
\* does not, and an object is deallocated when its last reference is released,
\* releasing in turn what it holds.
AllocInit == 1

\* The references on an entry when buildNSMenuFromJuceMenu returns: the menu's,
\* and the one of alloc; [NSMenuItem separatorItem] is autoreleased and the
\* function's pool has drained.
ReferencesOnEntry(entry) == (IF entry.isSeparatorItem THEN 0 ELSE AllocInit) + 1

\* The references on a submenu: the one of alloc in the recursive call, and
\* its entry's.
ReferencesOnSubmenu == AllocInit + 1

\* The references on the MenuItemTarget of a call.
ReferencesOnTarget == AllocInit

\* Whether a release is the last one.
ReleasedToZero(references) == references - 1 = 0

\* The objects of a native menu: the menu, its entries and their submenus,
\* each named by its class and its place.
RECURSIVE ObjectsOf(_, _)
ObjectsOf(nsMenu, at) ==
    {<<"NSMenu", at>>}
        \cup UNION { {<<"NSMenuItem", Append(at, i)>>}
                        \cup (IF nsMenu[i].submenu # nullptr
                                THEN ObjectsOf(nsMenu[i].submenu[1], Append(at, i))
                                ELSE {})
                    : i \in 1..Len(nsMenu) }

\* The objects of a native menu that remain allocated once a holder of one of
\* its references has released it.
RECURSIVE AfterRelease(_, _, _)
AfterRelease(nsMenu, at, references) ==
    IF ~ReleasedToZero(references) THEN ObjectsOf(nsMenu, at)
    ELSE UNION { LET entry == nsMenu[i]
                     path == Append(at, i)
                 IN  IF ~ReleasedToZero(ReferencesOnEntry(entry))
                       THEN {<<"NSMenuItem", path>>}
                                \cup (IF entry.submenu # nullptr
                                        THEN ObjectsOf(entry.submenu[1], path)
                                        ELSE {})
                     ELSE IF entry.submenu # nullptr
                       THEN AfterRelease(entry.submenu[1], path, ReferencesOnSubmenu)
                       ELSE {}
               : i \in 1..Len(nsMenu) }

\* "[nsMenu release]; [target release];": what a show function leaves
\* allocated of the objects it created.
AfterCleanUp(nsMenu) ==
    AfterRelease(nsMenu, <<>>, AllocInit)
        \cup (IF ReleasedToZero(ReferencesOnTarget) THEN {} ELSE {<<"MenuItemTarget", <<>>>>})

\* ------------------------------------------------------------------ state

VARIABLES
    gSelectedMenuItemID,  \* the file-scope static of the popup menus
    frame,                \* per caller: the popup-menu call it is in
    returned,             \* the popup-menu call that has just returned
    earlierNonZero,       \* history: some popup-menu call has returned a non-zero ID
    pasteboard,           \* [NSPasteboard generalPasteboard]: the data held per type
    memoryBlock,          \* the caller's juce::MemoryBlock
    pbCall,               \* the pasteboard call made last, with what it returned
    copied,               \* history: the last copy and the type of the one before
                          \* it, while the pasteboard is unchanged
    checked,              \* history: the last type check, while it is unchanged
    dialog,               \* the dialog call in progress: its locals and its text field
    dlgReturned,          \* the dialog call that has just returned
    observers,            \* the text-change observers registered by the dialogs
    mainQueue,            \* the blocks dispatched to the main queue, oldest first
    timers,               \* the dispatch_after blocks whose 50 ms have not elapsed,
                          \* by the tag of their chain, oldest first
    keyWindow,            \* the key window: "none", "main" (the caller's) or "alert"
    mainWindowVisible     \* whether the caller's window is visible

menuVars == <<gSelectedMenuItemID, frame, returned, earlierNonZero>>

pasteboardVars == <<pasteboard, memoryBlock, pbCall, copied, checked>>

dialogVars ==
    <<dialog, dlgReturned, observers, mainQueue, timers, keyWindow, mainWindowVisible>>

nonMenuVars == <<pasteboardVars, dialogVars>>

nonPasteboardVars == <<menuVars, dialogVars>>

nonDialogVars == <<menuVars, pasteboardVars>>

vars == <<menuVars, pasteboardVars, dialogVars>>

\* -------------------------------------------------------------- pasteboard

\* Bytes and byte sequences: the data a caller copies, and the content of its
\* memory block.
Bytes == {0, 255}
Blocks == SeqsUpTo(Bytes, MaxDataLen)

\* The type identifiers: the custom type of the README, a type of its own that
\* other applications put on the pasteboard, and public.data, to which both
\* conform (the README's Info.plist declares the custom type to conform to it).
PresetUTI == "com.yourcompany.yourapp.preset"
TextUTI == "public.utf8-plain-text"
DataUTI == "public.data"
TypeUTIs == {PresetUTI, TextUTI, DataUTI}
ConformsTo(type, other) == type = other \/ other = DataUTI

\* The pasteboard holds, per type, no data (nil) or a pointer to the bytes.
nil == <<>>
EmptyPasteboard == [t \in TypeUTIs |-> nil]

NoPbCall == [fn |-> "none", typeUTI |-> "", result |-> FALSE, blockBefore |-> <<>>]
NoCopy == [valid |-> FALSE, typeUTI |-> "", bytes |-> <<>>, earlier |-> <<>>]
NoCheck == [valid |-> FALSE, typeUTI |-> "", result |-> FALSE]

\* Mutation: the buffer is copied as a C string, up to its first zero byte.
RECURSIVE UpToNul(_)
UpToNul(bytes) ==
    IF bytes = <<>> \/ Head(bytes) = 0 THEN <<>>
    ELSE <<Head(bytes)>> \o UpToNul(Tail(bytes))
DataWithCString(data, size) == UpToNul(SubSeq(data, 1, size))

\* [NSData dataWithBytes: data length: size]: the first size bytes of the buffer.
DataWithBytes(data, size) == SubSeq(data, 1, size)

\* Mutation: the type is added to the types the pasteboard has.
SetDataOfType(dataToCopy, pasteboardType) ==
    [pasteboard EXCEPT ![pasteboardType] = <<dataToCopy>>]

\* declareTypes: @[pasteboardType] followed by setData: forType: pasteboardType:
\* the earlier contents are cleared and the one type holds the data.
DeclareAndSetData(dataToCopy, pasteboardType) ==
    [t \in TypeUTIs |-> IF t = pasteboardType THEN <<dataToCopy>> ELSE nil]

copyDataToClipboard(blocks, typeUTIs) ==
    \E data \in blocks, typeUTI \in typeUTIs :
      \E size \in 0..Len(data) :
        LET dataToCopy == DataWithBytes(data, size) IN
        /\ pasteboard' = DeclareAndSetData(dataToCopy, typeUTI)
        /\ pbCall' = [fn |-> "copyDataToClipboard", typeUTI |-> typeUTI,
                      result |-> FALSE, blockBefore |-> memoryBlock]
        /\ copied' = [valid |-> TRUE, typeUTI |-> typeUTI, bytes |-> SubSeq(data, 1, size),
                      earlier |-> IF copied.valid THEN <<copied.typeUTI>> ELSE <<>>]
        /\ checked' = NoCheck
        /\ UNCHANGED <<memoryBlock, nonPasteboardVars>>

\* canReadItemWithDataConformingToTypes: @[pasteboardType]: some item of the
\* pasteboard has data of a type that conforms to pasteboardType.
CanReadItemWithDataConformingToTypes(pasteboardType) ==
    \E t \in TypeUTIs : pasteboard[t] # nil /\ ConformsTo(t, pasteboardType)

clipboardContainsDataType(typeUTIs) ==
    \E typeUTI \in typeUTIs :
        LET result == CanReadItemWithDataConformingToTypes(typeUTI) IN
        /\ pbCall' = [fn |-> "clipboardContainsDataType", typeUTI |-> typeUTI,
                      result |-> result, blockBefore |-> memoryBlock]
        /\ checked' = [valid |-> TRUE, typeUTI |-> typeUTI, result |-> result]
        /\ UNCHANGED <<pasteboard, memoryBlock, copied, nonPasteboardVars>>

\* dataForType: pasteboardType: the data held for exactly this type, or nil.
DataForType(pasteboardType) == pasteboard[pasteboardType]

\* Mutation: the data are appended to the block's content.
AppendToBlock(block, bytes) == block \o bytes

\* memoryBlock.replaceAll (data.bytes, data.length): the block's new content.
ReplaceAll(block, bytes) == bytes

\* The caller's block holds any content when it calls.
fetchDataFromClipboard(blocks, typeUTIs) ==
    \E block \in blocks, typeUTI \in typeUTIs :
        LET data == DataForType(typeUTI) IN
        /\ memoryBlock' = IF data # nil THEN ReplaceAll(block, data[1]) ELSE block
        /\ pbCall' = [fn |-> "fetchDataFromClipboard", typeUTI |-> typeUTI,
                      result |-> (data # nil), blockBefore |-> block]
        /\ UNCHANGED <<pasteboard, copied, checked, nonPasteboardVars>>

\* Another application (or the user, in one) replaces the pasteboard's contents.
OtherApplicationData == {<<7>>}
OtherApplicationWrites ==
    \E contents \in [TypeUTIs -> {nil} \cup { <<d>> : d \in OtherApplicationData }] :
        /\ contents # pasteboard
        /\ pasteboard' = contents
        /\ pbCall' = NoPbCall
        /\ copied' = NoCopy
        /\ checked' = NoCheck
        /\ UNCHANGED <<memoryBlock, nonPasteboardVars>>

NextPasteboard ==
    \/ copyDataToClipboard(Blocks, TypeUTIs)
    \/ clipboardContainsDataType(TypeUTIs)
    \/ fetchDataFromClipboard(Blocks, TypeUTIs)
    \/ OtherApplicationWrites

\* ------------------------------------------------------------ popup menus

\* The callers of the popup-menu functions: the message thread, and a second
\* caller whose call can overlap the first one's (another thread, or a call
\* made from the run loop while the first menu is tracking).
MessageThread == {1}
Callers == {1, 2}

\* parentComponent: null, a component that is not on the desktop
\* (getWindowHandle() gives null), or one with a native view.
ParentComponents == {"nullptr", "noWindowHandle", "hasWindowHandle"}

\* [NSEvent mouseLocation], the screenPosition arguments (JUCE coordinates) and
\* the height of [[NSScreen mainScreen] frame].
MouseLocations == {<<50, 60>>}
ScreenPositions == {<<100, 200>>}
MainScreenHeight == 900

\* The offset added for a checked item.
CheckedItemOffset == 10

NoLocation == <<>>
NoPopup ==
    [method |-> "none", positioningItem |-> nullptr, location |-> NoLocation,
     view |-> "nil"]

\* pc: "idle" (in no call), "tracking" (blocked in the popup call while the
\* menu is open), "closed" (the popup call has returned into the show function).
\* chosen and overlapped are history: the entry the user chose in this call's
\* menu, and whether another call was in progress during this one.
\* args are the arguments of the call other than the menu.
NoArguments == [parentComponent |-> "none", screenPosition |-> NoLocation]

IdleFrame ==
    [pc |-> "idle", fn |-> "none", menu |-> <<>>, args |-> NoArguments,
     nsMenu |-> <<>>, popup |-> NoPopup, chosen |-> nullptr, overlapped |-> FALSE]

NoReturn ==
    [caller |-> 0, fn |-> "none", result |-> 0, chosen |-> nullptr, chosenID |-> 0,
     afterNonZero |-> FALSE, overlapped |-> FALSE, allocated |-> {}]

\* Mutation: the static is not reset at the head of a show function.
SelectedMenuItemIDKept == gSelectedMenuItemID

\* "gSelectedMenuItemID = 0" at the head of each show function.
ResetSelectedMenuItemID == 0

\* The view showPopupMenu gets from parentComponent.
ViewOf(parentComponent) ==
    IF parentComponent = "hasWindowHandle" THEN "view" ELSE "nil"

\* Mutation: the JUCE y is taken as the native y.
FlipYOmitted(y) == y

\* The native y of a JUCE screen y.
FlipY(y) == MainScreenHeight - y

\* Mutation: without a view showPopupMenu flips the y of the mouse location
\* and adds the offset for a checked item.
PopupOfShowPopupMenuFlipped(view, checkedItem, mouseLocation) ==
    IF view # "nil"
      THEN [method |-> "popUpContextMenu", positioningItem |-> nullptr,
            location |-> NoLocation, view |-> view]
      ELSE [method |-> "popUpMenuPositioningItem", positioningItem |-> checkedItem,
            location |-> <<mouseLocation[1],
                           FlipY(mouseLocation[2])
                             + (IF checkedItem # nullptr THEN CheckedItemOffset ELSE 0)>>,
            view |-> "nil"]

\* What showPopupMenu hands to AppKit.
PopupOfShowPopupMenu(view, checkedItem, mouseLocation) ==
    IF view # "nil"
      THEN [method |-> "popUpContextMenu", positioningItem |-> nullptr,
            location |-> NoLocation, view |-> view]
      ELSE [method |-> "popUpMenuPositioningItem", positioningItem |-> checkedItem,
            location |-> mouseLocation, view |-> "nil"]

\* Mutation: showPopupMenuAt adds no offset for a checked item.
PopupOfShowPopupMenuAtNoOffset(checkedItem, screenPosition) ==
    [method |-> "popUpMenuPositioningItem", positioningItem |-> checkedItem,
     location |-> <<screenPosition[1], FlipY(screenPosition[2])>>, view |-> "nil"]

\* What showPopupMenuAt hands to AppKit.
PopupOfShowPopupMenuAt(checkedItem, screenPosition) ==
    LET yPos == FlipY(screenPosition[2])
                  + (IF checkedItem # nullptr THEN CheckedItemOffset ELSE 0)
    IN  [method |-> "popUpMenuPositioningItem", positioningItem |-> checkedItem,
         location |-> <<screenPosition[1], yPos>>, view |-> "nil"]

\* What showPopupMenuAtFixed hands to AppKit.
PopupOfShowPopupMenuAtFixed(screenPosition) ==
    [method |-> "popUpMenuPositioningItem", positioningItem |-> nullptr,
     location |-> <<screenPosition[1], FlipY(screenPosition[2])>>, view |-> "nil"]

\* Whether a call other than c's is in progress.
OtherCallInProgress(c) == \E d \in Callers \ {c} : frame[d].pc # "idle"

\* Mutation: the popup call returns at once instead of tracking the menu.
EnterTrackingWithoutBlocking(c, fn, menu, args, nsMenu, popup) ==
    [d \in Callers |->
        IF d = c
          THEN [pc |-> "closed", fn |-> fn, menu |-> menu, args |-> args,
                nsMenu |-> nsMenu, popup |-> popup, chosen |-> nullptr,
                overlapped |-> OtherCallInProgress(c)]
          ELSE [frame[d] EXCEPT !.overlapped = @ \/ frame[d].pc # "idle"]]

\* The frames once caller c has entered menu tracking: the menu has been built
\* and popped up, and the call blocks until the menu closes.
EnterTracking(c, fn, menu, args, nsMenu, popup) ==
    [d \in Callers |->
        IF d = c
          THEN [pc |-> "tracking", fn |-> fn, menu |-> menu, args |-> args,
                nsMenu |-> nsMenu, popup |-> popup, chosen |-> nullptr,
                overlapped |-> OtherCallInProgress(c)]
          ELSE [frame[d] EXCEPT !.overlapped = @ \/ frame[d].pc # "idle"]]

\* A caller can call once it has taken the result of its previous call.
CanCall(c) == frame[c].pc = "idle" /\ returned.caller # c

showPopupMenu(c, menus) ==
    /\ CanCall(c)
    /\ \E menu \in menus, parentComponent \in ParentComponents,
          mouseLocation \in MouseLocations :
          LET built == buildNSMenuFromJuceMenu(menu, c, OutTo(nullptr))
              popup == PopupOfShowPopupMenu(ViewOf(parentComponent),
                                            built.outCheckedItem.item, mouseLocation)
              args == [NoArguments EXCEPT !.parentComponent = parentComponent]
          IN  frame' = EnterTracking(c, "showPopupMenu", menu, args, built.nsMenu,
                                     popup)
    /\ gSelectedMenuItemID' = ResetSelectedMenuItemID
    /\ UNCHANGED <<returned, earlierNonZero, nonMenuVars>>

showPopupMenuAt(c, menus) ==
    /\ CanCall(c)
    /\ \E menu \in menus, screenPosition \in ScreenPositions :
          LET built == buildNSMenuFromJuceMenu(menu, c, OutTo(nullptr))
              popup == PopupOfShowPopupMenuAt(built.outCheckedItem.item, screenPosition)
              args == [NoArguments EXCEPT !.screenPosition = screenPosition]
          IN  frame' = EnterTracking(c, "showPopupMenuAt", menu, args, built.nsMenu,
                                     popup)
    /\ gSelectedMenuItemID' = ResetSelectedMenuItemID
    /\ UNCHANGED <<returned, earlierNonZero, nonMenuVars>>

showPopupMenuAtFixed(c, menus) ==
    /\ CanCall(c)
    /\ \E menu \in menus, screenPosition \in ScreenPositions :
          LET built == buildNSMenuFromJuceMenu(menu, c, NullOut)
              popup == PopupOfShowPopupMenuAtFixed(screenPosition)
              args == [NoArguments EXCEPT !.screenPosition = screenPosition]
          IN  frame' = EnterTracking(c, "showPopupMenuAtFixed", menu, args,
                                     built.nsMenu, popup)
    /\ gSelectedMenuItemID' = ResetSelectedMenuItemID
    /\ UNCHANGED <<returned, earlierNonZero, nonMenuVars>>

\* -[MenuItemTarget menuItemSelected:]: what the static becomes for a sender.
TagOfSender(item) == item.tag

\* The user chooses an entry: AppKit sends the entry's action to its target and
\* the menu closes.
menuItemSelected(c) ==
    /\ frame[c].pc = "tracking"
    /\ \E path \in Choosable(frame[c].nsMenu, <<>>) :
          /\ gSelectedMenuItemID' = TagOfSender(EntryAt(frame[c].nsMenu, path))
          /\ frame' = [frame EXCEPT ![c].pc = "closed", ![c].chosen = path]
    /\ UNCHANGED <<returned, earlierNonZero, nonMenuVars>>

\* The user dismisses the menu (a click outside it, Escape): no action is sent.
DismissMenu(c) ==
    /\ frame[c].pc = "tracking"
    /\ frame' = [frame EXCEPT ![c].pc = "closed"]
    /\ UNCHANGED <<gSelectedMenuItemID, returned, earlierNonZero, nonMenuVars>>

\* "int result = gSelectedMenuItemID": what a show function returns.
ResultOfShow == gSelectedMenuItemID

\* The menu has closed: the call reads the static, releases and returns.
ReturnFromShow(c) ==
    /\ frame[c].pc = "closed"
    /\ returned' =
         [caller |-> c, fn |-> frame[c].fn, result |-> ResultOfShow,
          chosen |-> frame[c].chosen,
          chosenID |-> IF frame[c].chosen = nullptr THEN 0
                       ELSE ItemAt(frame[c].menu, frame[c].chosen).itemID,
          afterNonZero |-> earlierNonZero,
          overlapped |-> frame[c].overlapped,
          allocated |-> AfterCleanUp(frame[c].nsMenu)]
    /\ earlierNonZero' = (earlierNonZero \/ ResultOfShow # 0)
    /\ frame' = [frame EXCEPT ![c] = IdleFrame]
    /\ UNCHANGED <<gSelectedMenuItemID, nonMenuVars>>

\* The caller takes the returned ID and goes on.
TakeResult(c) ==
    /\ returned.caller = c
    /\ returned' = NoReturn
    /\ UNCHANGED <<gSelectedMenuItemID, frame, earlierNonZero, nonMenuVars>>

\* ------------------------------------------------------------------ dialogs

\* The titles, messages and button titles of the alerts are shown and never
\* read back, and are no part of the state.

NSAlertFirstButtonReturn == 1000
NSAlertSecondButtonReturn == 1001
NSModalResponseStop == 0 - 1000
NSModalResponseAbort == 0 - 1001

\* The ways a modal session of an alert ends: a click on (or the key
\* equivalent of) one of its buttons, or -[NSApplication stopModal] or
\* -[NSApplication abortModal] called by other code of the process.
ModalEnds(buttons) ==
    {"firstButton", "stopModal", "abortModal"}
        \cup (IF buttons >= 2 THEN {"secondButton"} ELSE {})

\* What -[NSAlert runModal] returns.
runModal(endedBy) ==
    CASE endedBy = "firstButton" -> NSAlertFirstButtonReturn
      [] endedBy = "secondButton" -> NSAlertSecondButtonReturn
      [] endedBy = "stopModal" -> NSModalResponseStop
      [] OTHER -> NSModalResponseAbort

MaxLengths == (0 - 1)..MaxMaxLength

\* What the caller's outText holds before the call: a text no field holds.
OutTexts == {<<98>>}

IdleDialog ==
    [pc |-> "idle", fn |-> "none", currentText |-> <<>>, maxLength |-> 0,
     input |-> <<>>, observer |-> FALSE, originalWindow |-> "nil",
     outText |-> <<>>, edited |-> FALSE]

\* A call that has returned: its result (FALSE for showInfoDialog, which has
\* none), how its modal session ended, the caller's outText after it, and the
\* call's locals at the return.
NoDialogReturn ==
    [fn |-> "none", result |-> FALSE, endedBy |-> "none", outText |-> <<>>,
     call |-> IdleDialog]

\* The blocks of the main queue.  The tag of a focus-restoring block stands
\* for the block object: it names the restoration one dialog call has
\* dispatched, through its first block, its timer and its second block.
SelectTextBlock == [kind |-> "selectText", tag |-> 0]
RestoreFocusBlock(tag) == [kind |-> "restoreFocus", tag |-> tag]
RestoreFocusAgainBlock(tag) == [kind |-> "restoreFocusAgain", tag |-> tag]

Tags == 1..MaxQueued

TagsInUse ==
    {mainQueue[i].tag : i \in 1..Len(mainQueue)} \cup {timers[i] : i \in 1..Len(timers)}

FreshTag == CHOOSE tag \in Tags \ TagsInUse : \A other \in Tags \ TagsInUse : tag <= other

\* [[NSApplication sharedApplication] keyWindow] as a call reads it.
KeyWindowOfApplication == IF keyWindow = "main" THEN "main" ELSE "nil"

\* The key window once the alert has closed is AppKit's choice among the
\* visible windows.
AfterAlertCloses == {"none"} \cup (IF mainWindowVisible THEN {"main"} ELSE {})

\* A call starts when no other is in progress, its caller has taken the last
\* result, and the main queue has room for the blocks the call dispatches.
CanShowDialog ==
    /\ dialog.pc = "idle"
    /\ dlgReturned.fn = "none"
    /\ Len(mainQueue) + Len(timers) + 2 <= MaxQueued

\* Mutation: the observer keeps one character more than maxLength.
TextDidChangeKeepsOneMore(text, maxLength) ==
    IF Len(text) > maxLength THEN SubSeq(text, 1, maxLength + 1) ELSE text

\* The block of the text-change observer.
TextDidChange(text, maxLength) ==
    IF Len(text) > maxLength THEN SubSeq(text, 1, maxLength) ELSE text

\* Mutation: the observer is added unless maxLength is negative.
AddsObserverUnlessNegative(maxLength) == maxLength >= 0

\* "if (maxLength > 0)": whether the call adds the character limit observer.
AddsObserver(maxLength) == maxLength > 0

\* showTextInputDialog up to the start of the modal session.
showTextInputDialog(texts, maxLengths) ==
    /\ CanShowDialog
    /\ \E currentText \in texts, maxLength \in maxLengths, outText \in OutTexts :
        /\ dialog' =
            [pc |-> "modal", fn |-> "showTextInputDialog",
             currentText |-> currentText, maxLength |-> maxLength,
             input |-> stringWithUTF8String(toRawUTF8(currentText)),
             observer |-> AddsObserver(maxLength),
             originalWindow |-> KeyWindowOfApplication,
             outText |-> outText, edited |-> FALSE]
        /\ observers' = IF AddsObserver(maxLength) THEN observers + 1 ELSE observers
    /\ mainQueue' = Append(mainQueue, SelectTextBlock)
    /\ keyWindow' = "alert"
    /\ UNCHANGED <<dlgReturned, timers, mainWindowVisible, nonDialogVars>>

\* The user's editing of the field: typing a character at the end, typing one
\* over the whole selected text, and deleting the last character.
DeleteBackward(text) ==
    IF /\ Len(text) >= 2
       /\ IsHighSurrogate(text[Len(text) - 1])
       /\ IsLowSurrogate(text[Len(text)])
        THEN SubSeq(text, 1, Len(text) - 2)
        ELSE SubSeq(text, 1, Len(text) - 1)

UserEdits(text, fieldLen) ==
    {t \in {text \o Utf16Of(cp) : cp \in CodePoints} : Len(t) <= fieldLen}
        \cup {Utf16Of(cp) : cp \in CodePoints}
        \cup (IF text = <<>> THEN {} ELSE {DeleteBackward(text)})

\* An edit posts NSControlTextDidChangeNotification, which runs the observer's
\* block if one is registered.
UserEditsText(fieldLen) ==
    /\ dialog.pc = "modal"
    /\ dialog.fn = "showTextInputDialog"
    /\ \E text \in UserEdits(dialog.input, fieldLen) :
        dialog' = [dialog EXCEPT
            !.input = IF dialog.observer
                        THEN TextDidChange(text, dialog.maxLength)
                        ELSE text,
            !.edited = TRUE]
    /\ UNCHANGED <<dlgReturned, observers, mainQueue, timers, keyWindow,
                   mainWindowVisible, nonDialogVars>>

\* Mutation: the restoration is dispatched whatever the original window.
RestoreFocusAlways(queue) == Append(queue, RestoreFocusBlock(FreshTag))

\* The focus restoration the three dialogs end with.
RestoreFocus(queue) ==
    IF dialog.originalWindow # "nil" /\ mainWindowVisible
        THEN Append(queue, RestoreFocusBlock(FreshTag))
        ELSE queue

\* Mutation: outText is written whatever the result.
OutTextWritten(result, newText, outText) == newText

OutTextAfter(result, newText, outText) ==
    IF result = NSAlertFirstButtonReturn THEN newText ELSE outText

\* Mutation: the observer stays registered.
ObserverKept(observer, registered) == registered

\* The clean-up of the observer: the number of observers registered after it.
RemoveObserver(observer, registered) ==
    IF observer THEN registered - 1 ELSE registered

\* showTextInputDialog from the return of runModal.
TextInputDialogEnds ==
    /\ dialog.pc = "modal"
    /\ dialog.fn = "showTextInputDialog"
    /\ \E endedBy \in ModalEnds(2), utf8 \in UTF8String(dialog.input),
          key \in AfterAlertCloses :
        LET result == runModal(endedBy)
        IN  /\ observers' = RemoveObserver(dialog.observer, observers)
            /\ mainQueue' = RestoreFocus(mainQueue)
            /\ keyWindow' = key
            /\ dlgReturned' =
                [fn |-> dialog.fn,
                 result |-> result = NSAlertFirstButtonReturn,
                 endedBy |-> endedBy,
                 outText |-> OutTextAfter(result, fromUTF8(utf8), dialog.outText),
                 call |-> dialog]
    /\ dialog' = IdleDialog
    /\ UNCHANGED <<timers, mainWindowVisible, nonDialogVars>>

\* showInfoDialog up to the start of the modal session.
showInfoDialog ==
    /\ CanShowDialog
    /\ dialog' = [IdleDialog EXCEPT
            !.pc = "modal", !.fn = "showInfoDialog",
            !.originalWindow = KeyWindowOfApplication]
    /\ keyWindow' = "alert"
    /\ UNCHANGED <<dlgReturned, observers, mainQueue, timers,
                   mainWindowVisible, nonDialogVars>>

\* showInfoDialog from the return of runModal.
InfoDialogEnds ==
    /\ dialog.pc = "modal"
    /\ dialog.fn = "showInfoDialog"
    /\ \E endedBy \in ModalEnds(1), key \in AfterAlertCloses :
        /\ keyWindow' = key
        /\ dlgReturned' =
            [fn |-> dialog.fn, result |-> FALSE, endedBy |-> endedBy,
             outText |-> <<>>, call |-> dialog]
    /\ mainQueue' = RestoreFocus(mainQueue)
    /\ dialog' = IdleDialog
    /\ UNCHANGED <<observers, timers, mainWindowVisible, nonDialogVars>>

\* showConfirmDialog up to the start of the modal session.
showConfirmDialog ==
    /\ CanShowDialog
    /\ dialog' = [IdleDialog EXCEPT
            !.pc = "modal", !.fn = "showConfirmDialog",
            !.originalWindow = KeyWindowOfApplication]
    /\ keyWindow' = "alert"
    /\ UNCHANGED <<dlgReturned, observers, mainQueue, timers,
                   mainWindowVisible, nonDialogVars>>

\* What showConfirmDialog returns.
ConfirmedUnlessSecondButton(result) == result # NSAlertSecondButtonReturn
Confirmed(result) == result = NSAlertFirstButtonReturn

\* showConfirmDialog from the return of runModal.
ConfirmDialogEnds ==
    /\ dialog.pc = "modal"
    /\ dialog.fn = "showConfirmDialog"
    /\ \E endedBy \in ModalEnds(2), key \in AfterAlertCloses :
        /\ keyWindow' = key
        /\ dlgReturned' =
            [fn |-> dialog.fn, result |-> Confirmed(runModal(endedBy)),
             endedBy |-> endedBy, outText |-> <<>>, call |-> dialog]
    /\ mainQueue' = RestoreFocus(mainQueue)
    /\ dialog' = IdleDialog
    /\ UNCHANGED <<observers, timers, mainWindowVisible, nonDialogVars>>

\* The caller takes the result of the call and goes on.
TakeDialogResult ==
    /\ dlgReturned.fn # "none"
    /\ dlgReturned' = NoDialogReturn
    /\ UNCHANGED <<dialog, observers, mainQueue, timers, keyWindow,
                   mainWindowVisible, nonDialogVars>>

\* The main thread runs the blocks of the main queue in its run loop: inside
\* a modal session and once the caller has gone back to the loop.
MainQueueRuns(kind) ==
    /\ mainQueue # <<>>
    /\ Head(mainQueue).kind = kind
    /\ dialog.pc = "modal" \/ dlgReturned.fn = "none"

\* The block that makes the field first responder and selects its text; the
\* selection is no part of the state.
selectTextBlock ==
    /\ MainQueueRuns("selectText")
    /\ mainQueue' = Tail(mainQueue)
    /\ UNCHANGED <<dialog, dlgReturned, observers, timers, keyWindow,
                   mainWindowVisible, nonDialogVars>>

\* Mutation: the block makes no second attempt.
restoreFocusBlockOnce ==
    /\ MainQueueRuns("restoreFocus")
    /\ mainQueue' = Tail(mainQueue)
    /\ keyWindow' = "main"
    /\ mainWindowVisible' = TRUE
    /\ UNCHANGED <<dialog, dlgReturned, observers, timers, nonDialogVars>>

\* The block that brings the original window back and schedules the second
\* attempt 50 ms later.
restoreFocusBlock ==
    /\ MainQueueRuns("restoreFocus")
    /\ mainQueue' = Tail(mainQueue)
    /\ keyWindow' = "main"
    /\ mainWindowVisible' = TRUE
    /\ timers' = Append(timers, Head(mainQueue).tag)
    /\ UNCHANGED <<dialog, dlgReturned, observers, nonDialogVars>>

\* The 50 ms of a dispatch_after have elapsed: its block joins the main queue.
TimerElapses ==
    /\ timers # <<>>
    /\ timers' = Tail(timers)
    /\ mainQueue' = Append(mainQueue, RestoreFocusAgainBlock(Head(timers)))
    /\ UNCHANGED <<dialog, dlgReturned, observers, keyWindow,
                   mainWindowVisible, nonDialogVars>>

\* Mutation: the second attempt tests the window's visibility again.
restoreFocusAgainBlockIfVisible ==
    /\ MainQueueRuns("restoreFocusAgain")
    /\ mainQueue' = Tail(mainQueue)
    /\ keyWindow' = IF mainWindowVisible THEN "main" ELSE keyWindow
    /\ UNCHANGED <<dialog, dlgReturned, observers, timers, mainWindowVisible,
                   nonDialogVars>>

\* The second attempt.
restoreFocusAgainBlock ==
    /\ MainQueueRuns("restoreFocusAgain")
    /\ mainQueue' = Tail(mainQueue)
    /\ keyWindow' = "main"
    /\ mainWindowVisible' = TRUE
    /\ UNCHANGED <<dialog, dlgReturned, observers, timers, nonDialogVars>>

\* The host closes or hides the caller's window.
HostHidesWindow ==
    /\ mainWindowVisible
    /\ mainWindowVisible' = FALSE
    /\ keyWindow' = IF keyWindow = "main" THEN "none" ELSE keyWindow
    /\ UNCHANGED <<dialog, dlgReturned, observers, mainQueue, timers, nonDialogVars>>

\* The user brings the caller's window up; it becomes key unless an alert is
\* modal.
UserActivatesWindow ==
    /\ keyWindow # "main"
    /\ mainWindowVisible' = TRUE
    /\ keyWindow' = IF dialog.pc = "modal" THEN keyWindow ELSE "main"
    /\ UNCHANGED <<dialog, dlgReturned, observers, mainQueue, timers, nonDialogVars>>

NextDialogs ==
    \/ showTextInputDialog(JuceStrings, MaxLengths)
    \/ UserEditsText(MaxFieldLen)
    \/ TextInputDialogEnds
    \/ showInfoDialog
    \/ InfoDialogEnds
    \/ showConfirmDialog
    \/ ConfirmDialogEnds
    \/ TakeDialogResult
    \/ selectTextBlock
    \/ restoreFocusBlock
    \/ TimerElapses
    \/ restoreFocusAgainBlock
    \/ HostHidesWindow
    \/ UserActivatesWindow

Init ==
    /\ gSelectedMenuItemID = 0
    /\ frame = [c \in Callers |-> IdleFrame]
    /\ returned = NoReturn
    /\ earlierNonZero = FALSE
    /\ pasteboard = EmptyPasteboard
    /\ memoryBlock = <<>>
    /\ pbCall = NoPbCall
    /\ copied = NoCopy
    /\ checked = NoCheck
    /\ dialog = IdleDialog
    /\ dlgReturned = NoDialogReturn
    /\ observers = 0
    /\ mainQueue = <<>>
    /\ timers = <<>>
    /\ keyWindow = "main"
    /\ mainWindowVisible = TRUE

\* The popup menus called from the message thread, one call at a time.
Next ==
    \E c \in MessageThread :
        \/ showPopupMenu(c, Menus)
        \/ showPopupMenuAt(c, Menus)
        \/ showPopupMenuAtFixed(c, Menus)
        \/ menuItemSelected(c)
        \/ DismissMenu(c)
        \/ ReturnFromShow(c)
        \/ TakeResult(c)

Spec == Init /\ [][Next]_vars

\* Popup-menu calls that overlap: a second caller calls while the first one's
\* menu is open.
NextOverlap ==
    \E c \in Callers :
        \/ showPopupMenu(c, OverlapMenus)
        \/ showPopupMenuAt(c, OverlapMenus)
        \/ showPopupMenuAtFixed(c, OverlapMenus)
        \/ menuItemSelected(c)
        \/ DismissMenu(c)
        \/ ReturnFromShow(c)
        \/ TakeResult(c)

SpecOverlap == Init /\ [][NextOverlap]_vars

\* Popup-menu calls with menus whose items differ in their texts.
NextTitled ==
    \E c \in MessageThread :
        \/ showPopupMenu(c, TitledMenus)
        \/ showPopupMenuAt(c, TitledMenus)
        \/ showPopupMenuAtFixed(c, TitledMenus)
        \/ menuItemSelected(c)
        \/ DismissMenu(c)
        \/ ReturnFromShow(c)
        \/ TakeResult(c)

SpecTitled == Init /\ [][NextTitled]_vars

\* The pasteboard functions, and other applications writing the pasteboard.
SpecPasteboard == Init /\ [][NextPasteboard]_vars

\* The dialogs, called from the message thread.
SpecDialogs == Init /\ [][NextDialogs]_vars

\* The dialogs and the popup menus together, called from the message thread
\* one call at a time.  A call starts when no call of the other family is in
\* progress, and the main queue runs while the thread is in a run loop: the
\* application's, a modal session's, or menu tracking's.
\* Where the text and the menu are beside the point, the text input dialog is
\* called with an empty text and no limit, the user types single characters
\* over it, and the menu has the one item "Load Preset".
EmptyText == {<<>>}

NoLimit == {0}

TypedOver == 0

LoadPresetMenu == {<<RegularItem(1, TRUE, FALSE)>>}

NoMenuCall == \A c \in Callers : frame[c].pc = "idle" /\ returned.caller # c

NoDialogCall == dialog.pc = "idle" /\ dlgReturned.fn = "none"

MenuRunLoop == \A c \in Callers : frame[c].pc # "closed" /\ returned.caller # c

MenuCallStarts ==
    /\ NoDialogCall
    /\ \E c \in MessageThread :
        \/ showPopupMenu(c, LoadPresetMenu)
        \/ showPopupMenuAt(c, LoadPresetMenu)
        \/ showPopupMenuAtFixed(c, LoadPresetMenu)

MenuCallGoesOn ==
    \E c \in MessageThread :
        \/ menuItemSelected(c)
        \/ DismissMenu(c)
        \/ ReturnFromShow(c)
        \/ TakeResult(c)

DialogCallStarts ==
    /\ NoMenuCall
    /\ \/ showTextInputDialog(EmptyText, NoLimit)
       \/ showInfoDialog
       \/ showConfirmDialog

DialogCallGoesOn ==
    \/ UserEditsText(TypedOver)
    \/ TextInputDialogEnds
    \/ InfoDialogEnds
    \/ ConfirmDialogEnds
    \/ TakeDialogResult

MainQueueBlockRuns ==
    /\ MenuRunLoop
    /\ \/ selectTextBlock
       \/ restoreFocusBlock
       \/ restoreFocusAgainBlock

NextModal ==
    \/ MenuCallStarts
    \/ MenuCallGoesOn
    \/ DialogCallStarts
    \/ DialogCallGoesOn
    \/ MainQueueBlockRuns
    \/ TimerElapses
    \/ HostHidesWindow
    \/ UserActivatesWindow

\* What the scheduling guarantees: a thread that is running code goes on to
\* its return and its caller back to the run loop, a timer elapses, and the
\* run loop runs the blocks of the main queue each time the thread is in it.
\* Nothing obliges the user to act or the application to call.
FairModal ==
    /\ WF_vars(\E c \in MessageThread : ReturnFromShow(c))
    /\ WF_vars(\E c \in MessageThread : TakeResult(c))
    /\ WF_vars(TakeDialogResult)
    /\ WF_vars(TimerElapses)
    /\ SF_vars(MainQueueBlockRuns)

SpecModal == Init /\ [][NextModal]_vars /\ FairModal

\* The dialogs alone, with few texts: their windows and the main queue.
NextFocus ==
    \/ showTextInputDialog(EmptyText, NoLimit)
    \/ UserEditsText(TypedOver)
    \/ TextInputDialogEnds
    \/ showInfoDialog
    \/ InfoDialogEnds
    \/ showConfirmDialog
    \/ ConfirmDialogEnds
    \/ TakeDialogResult
    \/ selectTextBlock
    \/ restoreFocusBlock
    \/ TimerElapses
    \/ restoreFocusAgainBlock
    \/ HostHidesWindow
    \/ UserActivatesWindow

FairFocus ==
    /\ WF_vars(TakeDialogResult)
    /\ WF_vars(TimerElapses)
    /\ SF_vars(selectTextBlock \/ restoreFocusBlock \/ restoreFocusAgainBlock)

SpecFocus == Init /\ [][NextFocus]_vars /\ FairFocus

\* The three families together, one call at a time on the message thread.  A
\* pasteboard call runs from its start to its return in one step; here it
\* copies and fetches the empty block under the custom type.
NoBytes == {<<>>}

CustomType == {PresetUTI}

PasteboardCall ==
    /\ NoMenuCall
    /\ NoDialogCall
    /\ \/ copyDataToClipboard(NoBytes, CustomType)
       \/ clipboardContainsDataType(CustomType)
       \/ fetchDataFromClipboard(NoBytes, CustomType)

NextCalls ==
    \/ NextModal
    \/ PasteboardCall

SpecCalls == Init /\ [][NextCalls]_vars

\* ----------------------------------------------------------------- claims

\* C1: each of the three show functions returns the item ID of the item the
\* user chose, at the top level or in a submenu at any depth, and 0 when the
\* menu was dismissed without a choice.
C1_ShowReturnsChosenItemID ==
    returned.caller # 0 =>
        /\ returned.fn \in {"showPopupMenu", "showPopupMenuAt", "showPopupMenuAtFixed"}
        /\ returned.chosen # nullptr => returned.result = returned.chosenID
        /\ returned.chosen = nullptr => returned.result = 0

\* A call has returned the ID of an item chosen two submenus deep.
C1_Witness ==
    /\ returned.caller # 0
    /\ Len(returned.chosen) = 3
    /\ returned.result = returned.chosenID
    /\ returned.result # 0

\* C2: for calls that do not overlap, what a call returns depends on its own
\* menu and the user's choice in it alone, whatever earlier calls returned: a
\* call dismissed after an earlier call returned a non-zero ID returns 0.
C2_ResultIndependentOfEarlierCalls ==
    (returned.caller # 0 /\ returned.afterNonZero /\ ~returned.overlapped) =>
        returned.result = (IF returned.chosen = nullptr THEN 0 ELSE returned.chosenID)

\* A call dismissed without a choice has returned 0 after an earlier call
\* returned a non-zero ID.
C2_Witness ==
    /\ returned.caller # 0
    /\ returned.afterNonZero
    /\ returned.chosen = nullptr
    /\ returned.result = 0
    /\ gSelectedMenuItemID = 0

\* C3: when two show calls overlap, each returns the ID chosen in its own menu,
\* or 0 when nothing was chosen in it.
C3_OverlappingCallsReturnOwnChoice ==
    (returned.caller # 0 /\ returned.overlapped) =>
        \/ returned.chosen # nullptr /\ returned.result = returned.chosenID
        \/ returned.chosen = nullptr /\ returned.result = 0

\* The first ticked regular (no separator, no submenu) item at the top level of
\* a menu: its index, or 0 when there is none.
FirstTickedRegularItem(menu) ==
    LET ticked == { i \in 1..Len(menu) :
                      /\ ~menu[i].isSeparator
                      /\ menu[i].subMenu = nullptr
                      /\ menu[i].isTicked }
    IN  IF ticked = {} THEN 0
        ELSE CHOOSE i \in ticked : \A j \in ticked : i <= j

\* Whether the call positions its menu on a checked item: showPopupMenuAt, and
\* showPopupMenu when it has no view.
PositionsOnCheckedItem(f) ==
    \/ f.fn = "showPopupMenuAt"
    \/ f.fn = "showPopupMenu" /\ f.popup.method = "popUpMenuPositioningItem"

\* C10: the positioning item of a popup menu is the first ticked regular item
\* at the top level, enabled or not; an item inside a submenu is never the
\* positioning item, and without a ticked regular top-level item there is none.
C10_PositioningItemIsFirstTickedTopLevel ==
    \A c \in Callers :
        frame[c].pc = "tracking" =>
            LET f == frame[c]
                first == FirstTickedRegularItem(f.menu)
            IN  /\ f.popup.positioningItem # nullptr =>
                      first # 0 /\ f.popup.positioningItem = <<first>>
                /\ first = 0 => f.popup.positioningItem = nullptr
                /\ (first # 0 /\ PositionsOnCheckedItem(f)) =>
                      f.popup.positioningItem = <<first>>

\* A menu whose first item is a submenu holding a ticked item and whose second
\* item is a disabled ticked regular item is positioned on the second item.
C10_Witness ==
    \E c \in Callers :
        LET f == frame[c] IN
        /\ f.pc = "tracking"
        /\ f.fn = "showPopupMenuAt"
        /\ Len(f.menu) = 2
        /\ f.menu[1].subMenu # nullptr
        /\ f.menu[1].subMenu[1] # <<>>
        /\ f.menu[1].subMenu[1][1].isTicked
        /\ f.menu[2].subMenu = nullptr /\ ~f.menu[2].isSeparator
        /\ f.menu[2].isTicked /\ ~f.menu[2].isEnabled
        /\ f.popup.positioningItem = <<2>>

\* C7: a fetch for type T that follows a copy of size bytes under T, with no
\* pasteboard change in between, returns true and leaves exactly those bytes,
\* in order, in the block.
C7_ClipboardRoundTrip ==
    (/\ pbCall.fn = "fetchDataFromClipboard"
     /\ copied.valid
     /\ copied.typeUTI = pbCall.typeUTI) =>
        pbCall.result /\ memoryBlock = copied.bytes

\* Two bytes, the first of them zero, copied and fetched into a block that held
\* something else.
C7_Witness ==
    /\ pbCall.fn = "fetchDataFromClipboard"
    /\ copied.valid
    /\ copied.typeUTI = pbCall.typeUTI
    /\ copied.bytes = <<0, 255>>
    /\ pbCall.blockBefore = <<255>>
    /\ memoryBlock = <<0, 255>>

\* C8: clipboardContainsDataType(T) returns true exactly when the pasteboard
\* holds data of type T, and a fetch for T that follows a check for T that
\* returned true, with no pasteboard change in between, returns true.
C8_ContainsIsExactAndSound ==
    /\ pbCall.fn = "clipboardContainsDataType" =>
          (pbCall.result <=> pasteboard[pbCall.typeUTI] # nil)
    /\ (/\ pbCall.fn = "fetchDataFromClipboard"
        /\ checked.valid
        /\ checked.typeUTI = pbCall.typeUTI
        /\ checked.result) => pbCall.result

\* C9: fetchDataFromClipboard returns true exactly when the pasteboard had data
\* for typeUTI; then the block holds those bytes and nothing of its earlier
\* content, and otherwise the block is as it was.
C9_FetchReplacesOrLeavesBlock ==
    pbCall.fn = "fetchDataFromClipboard" =>
        /\ pbCall.result <=> pasteboard[pbCall.typeUTI] # nil
        /\ pbCall.result => memoryBlock = pasteboard[pbCall.typeUTI][1]
        /\ ~pbCall.result => memoryBlock = pbCall.blockBefore

\* A fetch has replaced a block of two bytes by the one byte of the pasteboard.
C9_Witness ==
    /\ pbCall.fn = "fetchDataFromClipboard"
    /\ pbCall.result
    /\ pbCall.blockBefore = <<255, 255>>
    /\ memoryBlock = <<0>>

\* C4: showTextInputDialog returns true exactly when its modal session ended
\* with the first button, and the outText it then leaves is the text the field
\* held at that moment.
C4_TrueOnFirstButtonWithFieldText ==
    dlgReturned.fn = "showTextInputDialog" =>
        /\ dlgReturned.result <=> dlgReturned.endedBy = "firstButton"
        /\ dlgReturned.result =>
                Utf16OfAll(dlgReturned.outText) = dlgReturned.call.input

\* C5: with maxLength > 0, the outText of a showTextInputDialog that returned
\* true has at most maxLength characters, whatever currentText was and
\* whatever the user edited.
C5_OutTextWithinMaxLength ==
    ( /\ dlgReturned.fn = "showTextInputDialog"
      /\ dlgReturned.call.maxLength > 0
      /\ dlgReturned.result )
        => Len(dlgReturned.outText) <= dlgReturned.call.maxLength

\* C6: showConfirmDialog returns true exactly when its modal session ended
\* with the first button.
C6_ConfirmTrueOnFirstButtonOnly ==
    dlgReturned.fn = "showConfirmDialog" =>
        (dlgReturned.result <=> dlgReturned.endedBy = "firstButton")

C6_Witness ==
    /\ dlgReturned.fn = "showConfirmDialog"
    /\ dlgReturned.endedBy = "firstButton"
    /\ dlgReturned.result

\* C11: showPopupMenuAt pops the menu up at the native point (x, H - y) of the
\* JUCE position (x, y), 10 higher exactly when there is a checked item, and
\* with that checked item (or none) as the positioning item.
C11_ShowPopupMenuAtNativePoint ==
    \A c \in Callers :
        frame[c].fn = "showPopupMenuAt" =>
            LET f == frame[c]
                first == FirstTickedRegularItem(f.menu)
                x == f.args.screenPosition[1]
                y == f.args.screenPosition[2]
            IN  /\ f.popup.method = "popUpMenuPositioningItem"
                /\ f.popup.view = "nil"
                /\ f.popup.positioningItem =
                      (IF first = 0 THEN nullptr ELSE <<first>>)
                /\ f.popup.location =
                      <<x, (MainScreenHeight - y) + (IF first = 0 THEN 0 ELSE 10)>>

\* showPopupMenuAt has popped up a menu with a checked item, 10 above the
\* flipped position.
C11_Witness ==
    \E c \in Callers :
        LET f == frame[c] IN
        /\ f.fn = "showPopupMenuAt"
        /\ FirstTickedRegularItem(f.menu) # 0
        /\ f.popup.location[2] = (MainScreenHeight - f.args.screenPosition[2]) + 10

\* C12: showPopupMenuAtFixed pops the menu up at the native point (x, H - y)
\* with no positioning item and no offset, whichever items are ticked.
C12_ShowPopupMenuAtFixedIgnoresTicks ==
    \A c \in Callers :
        frame[c].fn = "showPopupMenuAtFixed" =>
            LET f == frame[c]
                x == f.args.screenPosition[1]
                y == f.args.screenPosition[2]
            IN  /\ f.popup.method = "popUpMenuPositioningItem"
                /\ f.popup.view = "nil"
                /\ f.popup.positioningItem = nullptr
                /\ f.popup.location = <<x, MainScreenHeight - y>>

\* showPopupMenuAtFixed has popped up a menu with a ticked regular top-level
\* item.
C12_Witness ==
    \E c \in Callers :
        /\ frame[c].fn = "showPopupMenuAtFixed"
        /\ frame[c].pc = "tracking"
        /\ FirstTickedRegularItem(frame[c].menu) # 0

\* C13: showPopupMenu called with its default arguments does not position the
\* menu on a checked item.
C13_DefaultShowPopupMenuNotOnCheckedItem ==
    \A c \in Callers :
        ( /\ frame[c].fn = "showPopupMenu"
          /\ frame[c].args.parentComponent = "nullptr" )
            => frame[c].popup.positioningItem = nullptr

\* Whether a native menu has one entry per item of a JUCE menu, in the item's
\* order and of the item's kind, at every level.
RECURSIVE EntryPerItem(_, _)
EntryPerItem(juceMenu, nsMenu) ==
    /\ Len(nsMenu) = Len(juceMenu)
    /\ \A i \in 1..Len(juceMenu) :
        LET item == juceMenu[i]
            entry == nsMenu[i]
        IN  IF item.isSeparator
              THEN entry.isSeparatorItem
            ELSE IF item.subMenu # nullptr
              THEN /\ ~entry.isSeparatorItem
                   /\ entry.submenu # nullptr
                   /\ EntryPerItem(item.subMenu[1], entry.submenu[1])
            ELSE /\ ~entry.isSeparatorItem
                 /\ entry.submenu = nullptr
                 /\ entry.action = MenuItemSelectedAction
                 /\ entry.tag = item.itemID

\* C14: the native menu a show call builds has, at every level, exactly one
\* entry per item of the JUCE menu and in the same order: a separator entry for
\* a separator, a submenu entry holding the converted submenu for an item with
\* a submenu, and a selectable entry for every other item.
C14_NativeMenuMirrorsJuceMenu ==
    \A c \in Callers :
        frame[c].pc # "idle" => EntryPerItem(frame[c].menu, frame[c].nsMenu)

\* A menu of a separator and a submenu with one regular item has been built.
C14_Witness ==
    \E c \in Callers :
        LET f == frame[c] IN
        /\ f.pc = "tracking"
        /\ Len(f.menu) = 2
        /\ f.menu[1].isSeparator
        /\ f.menu[2].subMenu # nullptr
        /\ Len(f.menu[2].subMenu[1]) = 1
        /\ Len(f.nsMenu) = 2
        /\ f.nsMenu[2].submenu # nullptr
        /\ Len(f.nsMenu[2].submenu[1]) = 1

\* A popup-menu call returns in this step.
MenuCallReturns(c) == returned'.caller = c /\ returned.caller # c

\* A dialog call returns in this step.
DialogCallReturns == dlgReturned'.fn # "none" /\ dlgReturned.fn = "none"

\* C15: the dialogs and menus block their caller.  A popup-menu call returns
\* only once its menu has closed, and a menu closes only out of tracking, by the
\* user's choice or dismissal; a dialog call returns only out of its modal
\* session, by one of the ways the session ends; and a call whose menu has
\* closed does return.
C15_CallsBlockUntilDismissed ==
    /\ [][\A c \in Callers :
            /\ MenuCallReturns(c) => frame[c].pc = "closed"
            /\ (frame'[c].pc = "closed" /\ frame[c].pc # "closed")
                  => frame[c].pc = "tracking"
            /\ (frame'[c].pc = "tracking" /\ frame[c].pc # "tracking")
                  => returned' = returned]_vars
    /\ [][/\ DialogCallReturns =>
                /\ dialog.pc = "modal"
                /\ dialog'.pc = "idle"
                /\ dlgReturned'.endedBy \in ModalEnds(2)
          /\ (dialog'.pc = "modal" /\ dialog.pc # "modal")
                => dlgReturned' = dlgReturned]_vars
    /\ \A c \in MessageThread :
            (frame[c].pc = "closed") ~> (returned.caller = c)

\* A dialog call has returned out of a modal session ended with the second
\* button, after a popup-menu call that returned the user's choice.
C15_Witness ==
    /\ dlgReturned.fn = "showConfirmDialog"
    /\ dlgReturned.endedBy = "secondButton"
    /\ earlierNonZero

\* The blocks of the main queue and the tags of the pending timers.
QueuedBlocks == {mainQueue[i] : i \in 1..Len(mainQueue)}

PendingTimers == {timers[i] : i \in 1..Len(timers)}

\* C16: focus restoration.  A dialog call remembers the key window it finds;
\* when its modal session has ended it dispatches the restoration exactly if
\* that window exists and is visible, and nothing of a restoration is pending
\* before; the dispatched block then makes the window key and starts the
\* timer, the timer elapses, and the second block makes the window key again.
C16_FocusIsRestoredTwice ==
    /\ [][/\ (dialog'.pc = "modal" /\ dialog.pc # "modal") =>
                dialog'.originalWindow = (IF keyWindow = "main" THEN "main" ELSE "nil")
          /\ DialogCallReturns =>
                IF dialog.originalWindow # "nil" /\ mainWindowVisible
                  THEN \E tag \in Tags \ TagsInUse :
                          mainQueue' = Append(mainQueue, RestoreFocusBlock(tag))
                  ELSE mainQueue' = mainQueue
          /\ (TagsInUse' \ (TagsInUse \cup {0})) # {} => DialogCallReturns]_vars
    /\ \A tag \in Tags :
        /\ (RestoreFocusBlock(tag) \in QueuedBlocks)
              ~> (keyWindow = "main" /\ tag \in PendingTimers)
        /\ (tag \in PendingTimers)
              ~> (RestoreFocusAgainBlock(tag) \in QueuedBlocks)
        /\ (RestoreFocusAgainBlock(tag) \in QueuedBlocks)
              ~> (keyWindow = "main" /\ tag \notin TagsInUse)

\* The first attempt of a restoration has run and its 50 ms have elapsed; the
\* host has hidden the window meanwhile and the second attempt is queued.
C16_Witness ==
    /\ \E tag \in Tags : RestoreFocusAgainBlock(tag) \in QueuedBlocks
    /\ ~mainWindowVisible
    /\ dialog.pc = "idle"

\* C17 as stated: every operation is synchronous, and once a call has returned
\* no work of it is left scheduled: with no dialog call in progress the main
\* queue holds no block and no timer is running.
C17_NothingScheduledAfterReturn ==
    dialog.pc = "idle" => mainQueue = <<>> /\ timers = <<>>

\* C17, amended: every call has its result when it returns, and the only work
\* that outlives a call is a dialog's.  A step of a popup-menu or pasteboard
\* call dispatches nothing.  A dialog call dispatches the text selection when
\* it starts (the text input dialog only) and, when it returns, the focus
\* restoration if its original window exists and is visible; it starts no
\* timer itself; the text it hands back on OK is the field's at that moment.
C17_OnlyFocusWorkOutlivesACall ==
    [][/\ (frame' # frame \/ returned' # returned \/ pbCall' # pbCall) =>
              UNCHANGED <<mainQueue, timers>>
       /\ (dialog'.pc = "modal" /\ dialog.pc = "idle") =>
              /\ timers' = timers
              /\ mainQueue' = IF dialog'.fn = "showTextInputDialog"
                                THEN Append(mainQueue, SelectTextBlock)
                                ELSE mainQueue
       /\ DialogCallReturns =>
              /\ timers' = timers
              /\ IF dialog.originalWindow # "nil" /\ mainWindowVisible
                   THEN \E tag \in Tags : mainQueue' = Append(mainQueue, RestoreFocusBlock(tag))
                   ELSE mainQueue' = mainQueue
              /\ dlgReturned'.result /\ dlgReturned'.fn = "showTextInputDialog" =>
                    \E utf8 \in UTF8String(dialog.input) :
                        dlgReturned'.outText = fromUTF8(utf8)]_vars

\* A text input dialog has returned before its text selection ran: the
\* selection and the focus restoration are both queued behind the caller, with
\* a menu call and a pasteboard call made earlier.
C17_Witness ==
    /\ dlgReturned.fn = "showTextInputDialog"
    /\ SelectTextBlock \in QueuedBlocks
    /\ \E tag \in Tags : RestoreFocusBlock(tag) \in QueuedBlocks
    /\ earlierNonZero
    /\ pbCall.fn = "copyDataToClipboard"

\* C18: the memory of the popup menus.  When a show call has returned, none
\* of the native objects it created is still allocated: not the target, the
\* top-level menu, a submenu or an entry.
C18_NoObjectRemainsAllocated ==
    returned.caller # 0 => returned.allocated = {}

\* C19: maxLength 0 or negative means no limit.  Such a call of
\* showTextInputDialog has no text-change observer; each edit leaves in the
\* field what the user's edit made of it, shortened by nothing; and on OK
\* outText is the whole text of the field, whatever its length.
C19_NoLimitWithoutMaxLength ==
    /\ [](dialog.fn = "showTextInputDialog" /\ dialog.maxLength <= 0 =>
              ~dialog.observer /\ observers = 0)
    /\ [][(/\ dialog.pc = "modal" /\ dialog'.pc = "modal"
           /\ dialog.fn = "showTextInputDialog" /\ dialog.maxLength <= 0
           /\ dialog'.input # dialog.input) =>
              dialog'.input \in UserEdits(dialog.input, MaxFieldLen)]_vars
    /\ []((/\ dlgReturned.fn = "showTextInputDialog"
           /\ dlgReturned.call.maxLength <= 0
           /\ dlgReturned.result) =>
              Utf16OfAll(dlgReturned.outText) = dlgReturned.call.input)

\* A call with maxLength 0 has returned, on OK, a text longer than any limit
\* the other calls are given.
C19_Witness ==
    /\ dlgReturned.fn = "showTextInputDialog"
    /\ dlgReturned.call.maxLength = 0
    /\ dlgReturned.call.edited
    /\ dlgReturned.result
    /\ Len(dlgReturned.outText) > MaxMaxLength

\* The IDs of the enabled regular items of a menu, at every level.
RECURSIVE EnabledRegularItemIDs(_)
EnabledRegularItemIDs(menu) ==
    UNION { LET item == menu[i] IN
            IF item.isSeparator THEN {}
            ELSE IF item.subMenu # nullptr THEN EnabledRegularItemIDs(item.subMenu[1])
            ELSE IF item.isEnabled THEN {item.itemID}
            ELSE {}
          : i \in 1..Len(menu) }

\* C20: a show call on the message thread returns 0 or the ID of an enabled
\* regular item of the menu it was given; the entry it was chosen from is
\* never a separator, the parent entry of a submenu or a disabled item, and
\* without a chosen entry the call returns 0.
C20_ReturnsZeroOrEnabledRegularItemID ==
    [][\A c \in MessageThread :
        MenuCallReturns(c) =>
            /\ returned'.result \in {0} \cup EnabledRegularItemIDs(frame[c].menu)
            /\ IF returned'.chosen = nullptr THEN returned'.result = 0
               ELSE LET item == ItemAt(frame[c].menu, returned'.chosen)
                    IN  /\ ~item.isSeparator
                        /\ item.subMenu = nullptr
                        /\ item.isEnabled
                        /\ returned'.result = item.itemID]_vars

\* The user has chosen the enabled item of a submenu, in a menu that also has
\* a disabled item, and the call is about to return the static.
C20_Witness ==
    /\ frame[1].pc = "closed"
    /\ frame[1].chosen # nullptr
    /\ Len(frame[1].chosen) = 2
    /\ gSelectedMenuItemID \in EnabledRegularItemIDs(frame[1].menu)
    /\ \E i \in 1..Len(frame[1].menu) :
          LET item == frame[1].menu[i]
          IN  ~item.isSeparator /\ item.subMenu = nullptr /\ ~item.isEnabled

\* The entries of a native menu show the items of a JUCE menu, level by
\* level: a regular item's entry has the item's ID as tag, its enabled flag
\* and its tick; a submenu item's entry has the item's text as title, its
\* enabled flag and no tick.
RECURSIVE EntriesShowItems(_, _)
EntriesShowItems(menu, nsMenu) ==
    /\ Len(nsMenu) = Len(menu)
    /\ \A i \in 1..Len(menu) :
          LET item == menu[i]
              entry == nsMenu[i]
          IN  IF item.isSeparator THEN TRUE
              ELSE IF item.subMenu # nullptr
                THEN /\ entry.title = Utf16OfAll(item.text)
                     /\ entry.isEnabled = item.isEnabled
                     /\ entry.state = StateOff
                     /\ entry.submenu # nullptr
                     /\ EntriesShowItems(item.subMenu[1], entry.submenu[1])
              ELSE /\ entry.tag = item.itemID
                   /\ entry.isEnabled = item.isEnabled
                   /\ (entry.state = StateOn) = item.isTicked

\* C21: for every regular item the native entry's tag is the item's itemID,
\* its enabled flag is isEnabled and its check state is on exactly when the
\* item is ticked; for every submenu item the entry's title and enabled flag
\* are the item's text and isEnabled, and the entry shows no check state even
\* when the item is ticked.
C21_EntriesCarryItemFields ==
    \A c \in MessageThread :
        frame[c].pc # "idle" => EntriesShowItems(frame[c].menu, frame[c].nsMenu)

\* A menu is open whose item is a ticked, disabled submenu item with a text
\* outside the Basic Multilingual Plane.
C21_Witness ==
    LET f == frame[1] IN
    /\ f.pc = "tracking"
    /\ Len(f.menu) = 1
    /\ f.menu[1].subMenu # nullptr
    /\ f.menu[1].isTicked
    /\ ~f.menu[1].isEnabled
    /\ f.menu[1].text = <<128512, 97>>
    /\ f.nsMenu[1].title = <<55357, 56832, 97>>
    /\ f.nsMenu[1].state = StateOff

C23_ObserverRemovedBeforeReturn ==
    observers = IF /\ dialog.pc = "modal"
                   /\ dialog.fn = "showTextInputDialog"
                   /\ dialog.maxLength > 0
                  THEN 1 ELSE 0

\* A call with maxLength > 0, whose observer has shortened the field, has
\* been cancelled and has returned, and no observer is registered.
C23_Witness ==
    /\ dialog.pc = "idle"
    /\ dlgReturned.fn = "showTextInputDialog"
    /\ ~dlgReturned.result
    /\ dlgReturned.call.maxLength > 0
    /\ dlgReturned.call.observer
    /\ dlgReturned.call.edited
    /\ observers = 0

\* C24: when showTextInputDialog returns false, outText is as the caller
\* passed it in; it is written only by a call that returns true.
C24_OutTextKeptUnlessTrue ==
    /\ dialog.fn = "showTextInputDialog" => dialog.outText \in OutTexts
    /\ (dlgReturned.fn = "showTextInputDialog" /\ ~dlgReturned.result) =>
          dlgReturned.outText = dlgReturned.call.outText

\* A call whose field the user has filled has been cancelled and has
\* returned false, and outText is the caller's text, not the field's.
C24_Witness ==
    /\ dlgReturned.fn = "showTextInputDialog"
    /\ ~dlgReturned.result
    /\ dlgReturned.endedBy = "secondButton"
    /\ dlgReturned.call.edited
    /\ dlgReturned.call.input = <<97, 97>>
    /\ dlgReturned.outText = <<98>>

\* C25: copyDataToClipboard makes typeUTI the only type of the general
\* pasteboard: after it a fetch for any other type returns false, whatever had
\* been copied under that type before, and a fetch for typeUTI returns the
\* bytes of the last copy only.
C25_LastCopyIsAllThePasteboardHolds ==
    copied.valid =>
        /\ \A t \in TypeUTIs :
              pasteboard[t] = IF t = copied.typeUTI THEN <<copied.bytes>> ELSE nil
        /\ pbCall.fn = "fetchDataFromClipboard" =>
              /\ pbCall.result = (pbCall.typeUTI = copied.typeUTI)
              /\ pbCall.result => memoryBlock = copied.bytes

\* Bytes were copied under one type and then under another type, and a fetch
\* for the first type has returned false and has left the block as it was.
C25_Witness ==
    /\ copied.valid
    /\ copied.earlier # <<>>
    /\ copied.earlier[1] # copied.typeUTI
    /\ copied.bytes = <<0>>
    /\ pbCall.fn = "fetchDataFromClipboard"
    /\ pbCall.typeUTI = copied.earlier[1]
    /\ ~pbCall.result
    /\ memoryBlock = <<255>>

\* A restoration is dispatched in this step.
RestorationDispatched ==
    /\ Len(mainQueue') = Len(mainQueue) + 1
    /\ mainQueue'[Len(mainQueue')].kind = "restoreFocus"

\* One of the two deferred restore steps runs in this step.
RestoreStepRuns ==
    /\ mainQueue # <<>>
    /\ Head(mainQueue).kind \in {"restoreFocus", "restoreFocusAgain"}
    /\ mainQueue' = Tail(mainQueue)

\* C26: focus restoration targets the window that was key when the dialog's
\* modal session began, and is dispatched only at dismissal and only if that
\* window exists and is visible then; visibility is not tested again, so each
\* of the two deferred steps makes the window key and orders it front even if
\* it has been hidden or closed since dismissal.
C26_RestorationTestsVisibilityOnce ==
    [][ /\ (dialog.pc = "idle" /\ dialog'.pc = "modal") =>
              dialog'.originalWindow = (IF keyWindow = "main" THEN "main" ELSE "nil")
        /\ (dialog.pc = "modal" /\ dialog'.pc = "modal") =>
              dialog'.originalWindow = dialog.originalWindow
        /\ RestorationDispatched =>
              /\ DialogCallReturns
              /\ dialog.originalWindow = "main"
              /\ mainWindowVisible
        /\ RestoreStepRuns =>
              /\ keyWindow' = "main"
              /\ mainWindowVisible' = TRUE
      ]_vars

\* The first restore step has run, its timer has elapsed, and the window has
\* been hidden before the second step runs.
C26_Witness ==
    /\ mainQueue # <<>>
    /\ Head(mainQueue).kind = "restoreFocusAgain"
    /\ ~mainWindowVisible
    /\ keyWindow # "main"
    /\ dialog.pc = "idle"
    /\ dlgReturned.fn = "none"

\* A text-change notification of a call with maxLength > 0 is handled in this
\* step.
TextChangeHandled ==
    /\ dialog.pc = "modal"
    /\ dialog'.pc = "modal"
    /\ dialog.fn = "showTextInputDialog"
    /\ dialog.maxLength > 0
    /\ dialog' # dialog

\* C27: with maxLength > 0, a text-change notification leaves the field
\* holding the first maxLength characters of the edited text if that was
\* longer than maxLength and the edited text itself otherwise; handling the
\* notification again changes nothing, and after it the field has at most
\* maxLength characters.  The characters are those of the field's NSString,
\* UTF-16 units.
C27_TextChangeCutsToMaxLength ==
    [][ TextChangeHandled =>
          LET n == dialog.maxLength
              field == dialog'.input
          IN  /\ \E text \in UserEdits(dialog.input, MaxFieldLen) :
                    field = IF Len(text) > n THEN SubSeq(text, 1, n) ELSE text
              /\ TextDidChange(field, n) = field
              /\ Len(field) <= n
      ]_vars

\* With maxLength 1 the user has typed a character of two UTF-16 units and the
\* field holds the first of them.
C27_Witness ==
    /\ dialog.pc = "modal"
    /\ dialog.fn = "showTextInputDialog"
    /\ dialog.maxLength = 1
    /\ dialog.observer
    /\ dialog.edited
    /\ dialog.input = <<55357>>

=============================================================================
